---- MODULE Spec2Model ----
(***************************************************************************)
(* The Arachnida spider: URL parsing and joining, lenient attribute        *)
(* extraction, and the depth-bounded, host-restricted recursive crawl with *)
(* its two run-scoped dedup sets.  Both implementations are modelled:      *)
(* spider.cpp (impl = "cpp") and spider.c (impl = "c").                    *)
(*                                                                         *)
(* A string is a sequence of one-character strings; the empty sequence is  *)
(* the empty string.  Fixed-size C buffers (PATH_MAX, host[256]) are never *)
(* filled by the strings of this model, so truncation is not modelled.     *)
(***************************************************************************)
EXTENDS Integers, Sequences, FiniteSets, TLC

(***************************************************************************)
(* Characters                                                              *)
(***************************************************************************)
UpperChars == <<"A","B","C","D","E","F","G","H","I","J","K","L","M",
                "N","O","P","Q","R","S","T","U","V","W","X","Y","Z">>
LowerChars == <<"a","b","c","d","e","f","g","h","i","j","k","l","m",
                "n","o","p","q","r","s","t","u","v","w","x","y","z">>
DigitChars == {"0","1","2","3","4","5","6","7","8","9"}

IsUpper(c) == \E i \in 1..26 : UpperChars[i] = c
IsLower(c) == \E i \in 1..26 : LowerChars[i] = c
isdigit(c) == c \in DigitChars
isalnum(c) == IsUpper(c) \/ IsLower(c) \/ isdigit(c)
isspace(c) == c \in {" ", "\t", "\n", "\r"}
\* ECMAScript '.' matches every character but a line terminator.
IsLineTerminator(c) == c \in {"\n", "\r"}
\* Word characters of the regex word boundary \b.
IsWordChar(c) == isalnum(c) \/ c = "_"

tolower(c) == IF IsUpper(c)
              THEN LowerChars[CHOOSE i \in 1..26 : UpperChars[i] = c]
              ELSE c

(***************************************************************************)
(* Utils                                                                   *)
(***************************************************************************)
\* The element of a one-element set.  The({e : x \in {v}}) evaluates v once
\* and names the value x in e, so that no value of the model is computed
\* more than once however often it is used.
The(S) == CHOOSE x \in S : TRUE

to_lower(str) == The({ [i \in 1..Len(s) |-> tolower(s[i])] : s \in {str} })

starts_with(str, prefix) ==
    \E s \in {str}, pref \in {prefix} :
        /\ Len(s) >= Len(pref)
        /\ \A i \in 1..Len(pref) : s[i] = pref[i]

starts_with_ci(s, pref) == starts_with(to_lower(s), to_lower(pref))

ends_with(str, suffix) ==
    \E s \in {str}, suf \in {suffix} :
        /\ Len(s) >= Len(suf)
        /\ \A i \in 1..Len(suf) : s[Len(s) - Len(suf) + i] = suf[i]

\* Index of the first character of str, at or after start, that satisfies
\* the test; Len(str) + 1 when there is none.
FirstIn(str, start, Test(_)) ==
    The({ IF from > Len(s) THEN Len(s) + 1
          ELSE CHOOSE i \in from..(Len(s) + 1) :
                  /\ i = Len(s) + 1 \/ Test(s[i])
                  /\ \A j \in from..(i - 1) : ~Test(s[j])
          : s \in {str}, from \in {start} })

\* Index of the last character of str that satisfies the test; 0 when none.
LastIn(str, Test(_)) ==
    The({ CHOOSE i \in 0..Len(s) :
              /\ i = 0 \/ Test(s[i])
              /\ \A j \in (i + 1)..Len(s) : ~Test(s[j])
          : s \in {str} })

NotSpace(c) == ~isspace(c)
IsSlash(c) == c = "/"
IsQF(c) == c \in {"?", "#"}

AllSpace(str) == \E s \in {str} : \A i \in 1..Len(s) : isspace(s[i])

\* The text of str from index from on, and up to index to.
From(str, from) == The({ SubSeq(s, from, Len(s)) : s \in {str} })
UpTo(str, to) == SubSeq(str, 1, to)

ltrim(str) == The({ From(s, FirstIn(s, 1, NotSpace)) : s \in {str} })
rtrim(str) == The({ UpTo(s, LastIn(s, NotSpace)) : s \in {str} })
trim(s) == rtrim(ltrim(s))

\* find_first_of("?#") followed by substr(0, cut); strip_qf in C.
strip_qf(str) == The({ UpTo(s, FirstIn(s, 1, IsQF) - 1) : s \in {str} })

(***************************************************************************)
(* URL parsing / joining                                                   *)
(***************************************************************************)
Impls == {"cpp", "c"}

NoParts == [ok |-> FALSE, scheme |-> <<>>, host |-> <<>>, path |-> <<>>]

\* The path group of the URL pattern applied to tail, the text from the
\* first "/" after the host to the end: (/.*)?\s*$ in spider.cpp, where "."
\* stops at a line terminator, and (/[^[:space:]]*)?[[:space:]]*$ in
\* spider.c.  The result is the end index of the path in tail, or 0 when
\* the rest of the pattern cannot match.
PathEnd(imp, tail) ==
    The({ IF AllSpace(From(tail, stop)) THEN stop - 1 ELSE 0
          : stop \in { IF imp = "cpp" THEN FirstIn(tail, 1, IsLineTerminator)
                       ELSE FirstIn(tail, 1, isspace) } })

\* The host and path groups, matched on rest, the text after "://".
HostAndPath(imp, scheme, rest) ==
    The({ The({ IF host # <<>> /\ (tail # <<>> => pe > 0)
                THEN [ok |-> TRUE, scheme |-> scheme, host |-> host,
                      path |-> IF tail = <<>> THEN <<"/">> ELSE UpTo(tail, pe)]
                ELSE NoParts
                : host \in {UpTo(rest, k - 1)}, tail \in {From(rest, k)},
                  pe \in {PathEnd(imp, From(rest, k))} })
          : k \in {FirstIn(rest, 1, IsSlash)} })

SchemeAsGiven(imp, url) ==
    The({ The({ IF /\ starts_with_ci(s, <<"h","t","t","p">>)
                   /\ starts_with(From(s, n + 1), <<":","/","/">>)
                THEN HostAndPath(imp, UpTo(s, n), From(s, n + 4))
                ELSE NoParts
                : n \in { IF Len(s) >= 5 /\ tolower(s[5]) = "s" THEN 5 ELSE 4 } })
          : s \in {ltrim(url)} })

\* ^\s*(https?)://([^/]+)(/.*)?\s*$ with icase, as regex_match / regexec
\* decide it; the groups are scheme, host and path.
parse_url(imp, url) ==
    The({ The({ IF /\ starts_with_ci(s, <<"h","t","t","p">>)
                   /\ starts_with(From(s, n + 1), <<":","/","/">>)
                THEN HostAndPath(imp, to_lower(UpTo(s, n)), From(s, n + 4))
                ELSE NoParts
                : n \in { IF Len(s) >= 5 /\ tolower(s[5]) = "s" THEN 5 ELSE 4 } })
          : s \in {ltrim(url)} })

\* The base directory of a base path: "/a/b/index.html" gives "/a/b/".
url_base_dir(base) ==
    The({ IF path = <<>> THEN <<"/">>
          ELSE IF path[Len(path)] = "/" THEN path
          ELSE IF LastIn(path, IsSlash) = 0 THEN <<"/">>
          ELSE UpTo(path, LastIn(path, IsSlash))
          : path \in {strip_qf(base.path)} })

normalize_url(url) == trim(url)

\* The non-empty segments of a path, split at "/".
RECURSIVE SplitSlash(_)
SplitSlash(str) ==
    The({ IF s = <<>> THEN <<>>
          ELSE The({ (IF k = 1 THEN <<>> ELSE <<UpTo(s, k - 1)>>)
                         \o SplitSlash(From(s, k + 1))
                     : k \in {FirstIn(s, 1, IsSlash)} })
          : s \in {str} })

\* The "." and ".." pass over the segments: norm is the stack of retained
\* segments, ".." pops it when it is not empty.
RECURSIVE NormSegs(_, _)
NormSegs(segs, stack0) ==
    The({ IF parts = <<>> THEN norm
          ELSE IF Head(parts) = <<".">> \/ Head(parts) = <<>>
               THEN NormSegs(Tail(parts), norm)
          ELSE IF Head(parts) = <<".", ".">>
               THEN NormSegs(Tail(parts),
                             IF norm # <<>> THEN UpTo(norm, Len(norm) - 1)
                             ELSE norm)
          ELSE NormSegs(Tail(parts), Append(norm, Head(parts)))
          : parts \in {segs}, norm \in {stack0} })

\* The retained segments joined with "/" (no leading or trailing "/").
RECURSIVE JoinSlash(_)
JoinSlash(segs) ==
    The({ IF norm = <<>> THEN <<>>
          ELSE IF Len(norm) = 1 THEN norm[1]
          ELSE norm[1] \o <<"/">> \o JoinSlash(Tail(norm))
          : norm \in {segs} })

KeepDotSegments(combined) == combined

\* The path of combined without "." and ".." segments.
normalize_rel_path(combined) ==
    <<"/">> \o JoinSlash(NormSegs(SplitSlash(combined), <<>>))

OnlyEmptySkipped(h, hl) == h = <<>>

\* The references join_url does not resolve: empty, javascript:, mailto:
\* and fragment references.  h is the trimmed reference, hl its lower case.
IsSkippedRef(h, hl) ==
    \/ h = <<>>
    \/ starts_with(hl, <<"j","a","v","a","s","c","r","i","p","t",":">>)
    \/ starts_with(hl, <<"m","a","i","l","t","o",":">>)
    \/ h[1] = "#"

AbsolutePathNormalized(base, h) ==
    base.scheme \o <<":","/","/">> \o base.host \o normalize_rel_path(h)

\* return base.scheme + "://" + base.host + h;
AbsolutePathUrl(base, h) == base.scheme \o <<":","/","/">> \o base.host \o h

\* spider.c resolves a relative reference with
\*     snprintf(buf, sizeof(buf), "%s%s", dir, h);
\* where h points into buf itself, k characters (the leading white space of
\* the reference) behind its start: the output overlaps an argument, which
\* is undefined.  The builds differ in what they leave in buf:
\*   "copy_first"  h is read before buf is written: dir followed by h;
\*   "blockwise"   dir is written over the start of buf, then what buf
\*                 holds from h on is moved behind it as one block;
\*   "bytewise"    as before, but moved byte after byte from the front, so
\*                 that bytes just written are read again.
\* spider.cpp builds a new string and has one outcome.
OverlapKinds == {"copy_first", "blockwise", "bytewise"}
OverlapsOf(imp) == IF imp = "cpp" THEN {"copy_first"} ELSE OverlapKinds

\* buf after the snprintf: raw is the reference without its trailing white
\* space, as strncpy and rtrim left it in the zero-filled buf.
snprintf_overlap(ovl, dir, raw, k) ==
    IF ovl = "copy_first" THEN dir \o From(raw, k + 1)
    ELSE The({ The({ dir \o (IF ovl = "blockwise" \/ k >= d THEN S
                             ELSE [i \in 1..Len(S) |->
                                      dir[k + ((i - 1) % (d - k)) + 1]])
                     : S \in { From([i \in 1..(IF n > d THEN n ELSE d) |->
                                        IF i <= d THEN dir[i] ELSE raw[i]],
                                    k + 1) } })
               : d \in {Len(dir)}, n \in {Len(raw)} })

\* dir + h in spider.cpp, the snprintf above in spider.c.
combine(imp, ovl, dir, href) ==
    IF imp = "cpp" THEN dir \o normalize_url(href)
    ELSE The({ snprintf_overlap(ovl, dir, raw, Len(raw) - Len(ltrim(raw)))
               : raw \in {rtrim(href)} })

\* The absolute URL of href seen on the page base; the empty string (false
\* in spider.c) for a reference that is not to be followed.
join_url(imp, ovl, base, href) ==
    The({ IF IsSkippedRef(h, hl) THEN <<>>
          ELSE IF \/ starts_with(hl, <<"h","t","t","p",":","/","/">>)
                  \/ starts_with(hl, <<"h","t","t","p","s",":","/","/">>)
               THEN h
          ELSE IF starts_with(h, <<"/","/">>) THEN base.scheme \o <<":">> \o h
          ELSE IF starts_with(h, <<"/">>) THEN AbsolutePathUrl(base, h)
          ELSE base.scheme \o <<":","/","/">> \o base.host
                  \o normalize_rel_path(
                         combine(imp, ovl, url_base_dir(base), href))
          : h \in {normalize_url(href)}, hl \in {to_lower(normalize_url(href))} })

(***************************************************************************)
(* Image filters                                                           *)
(***************************************************************************)
ImageExts == { <<".","j","p","g">>, <<".","j","p","e","g">>,
               <<".","p","n","g">>, <<".","g","i","f">>, <<".","b","m","p">> }

ImageWithoutCut(url) == \E e \in ImageExts : ends_with(to_lower(url), e)

is_image_url(url) ==
    \E u \in {strip_qf(to_lower(url))} : \E e \in ImageExts : ends_with(u, e)

safe_filename(str) ==
    The({ [i \in 1..Len(name) |->
              IF isalnum(name[i]) \/ name[i] \in {".", "_", "-"}
              THEN name[i] ELSE "_"]
          : name \in {str} })

ImageBin == <<"i","m","a","g","e",".","b","i","n">>

NameUnfiltered(url) ==
    The({ The({ IF slash = 0 \/ slash + 1 > Len(u) THEN ImageBin
                ELSE From(u, slash + 1)
                : slash \in {LastIn(u, IsSlash)} })
          : u \in {strip_qf(url)} })

filename_from_url(url) ==
    The({ The({ IF slash = 0 \/ slash + 1 > Len(u) THEN ImageBin
                ELSE safe_filename(From(u, slash + 1))
                : slash \in {LastIn(u, IsSlash)} })
          : u \in {strip_qf(url)} })

(***************************************************************************)
(* HTML extraction                                                         *)
(***************************************************************************)
IsGt(c) == c = ">"
IsDQuote(c) == c = "\""
IsSQuote(c) == c = "'"
EndsUnquoted(c) == isspace(c) \/ c = ">"

\* The end index of the match of <\s*tagname\b[^>]*> that starts at s, or 0
\* when the pattern does not match there.  [^>]* cannot cross a ">", so a
\* match that starts at s can only end at the first ">" after the name.
TagMatchEnd(html, s, tagname) ==
    IF html[s] # "<" THEN 0
    ELSE The({ IF /\ starts_with_ci(From(html, q), tagname)
                  /\ q + Len(tagname) <= Len(html)
                  /\ ~IsWordChar(html[q + Len(tagname)])
               THEN The({ IF gt <= Len(html) THEN gt ELSE 0
                          : gt \in {FirstIn(html, q + Len(tagname), IsGt)} })
               ELSE 0
               : q \in {FirstIn(html, s + 1, NotSpace)} })

\* The least element of a non-empty set of numbers.
Least(S) == CHOOSE x \in S : \A y \in S : x <= y

\* The tag spans of text in document order, each search starting where the
\* match before it ended.
RECURSIVE FindTags(_, _, _)
FindTags(text, start, tagname) ==
    The({ The({ IF starts = {} THEN <<>>
                ELSE The({ <<SubSeq(html, Least(starts), e)>>
                               \o FindTags(html, e + 1, tagname)
                           : e \in {TagMatchEnd(html, Least(starts), tagname)} })
                : starts \in {{s \in from..Len(html) :
                                  TagMatchEnd(html, s, tagname) > 0}} })
          : html \in {text}, from \in {start} })

NoAttr == [ok |-> FALSE, value |-> <<>>, end |-> 0]

\* The quoted alternative "([^"]*)" or '([^']*)' at q: it ends at the next
\* quote of the kind that opens it.
QuotedAt(tag, q) ==
    The({ IF tag[q] = "\"" /\ dq <= Len(tag)
          THEN [ok |-> TRUE, value |-> SubSeq(tag, q + 1, dq - 1), end |-> dq]
          ELSE IF tag[q] = "'" /\ sq <= Len(tag)
          THEN [ok |-> TRUE, value |-> SubSeq(tag, q + 1, sq - 1), end |-> sq]
          ELSE NoAttr
          : dq \in {FirstIn(tag, q + 1, IsDQuote)},
            sq \in {FirstIn(tag, q + 1, IsSQuote)} })

\* The unquoted alternative ([^\s>]+) at q.
BareAt(tag, q) ==
    The({ IF runEnd >= q
          THEN [ok |-> TRUE, value |-> SubSeq(tag, q, runEnd), end |-> runEnd]
          ELSE NoAttr
          : runEnd \in {FirstIn(tag, q, EndsUnquoted) - 1} })

\* The match of attr\s*=\s*("([^"]*)"|'([^']*)'|([^\s>]+)) that starts at p
\* in tag.  q is the first character after "=" and its white space; the
\* three alternatives can only start there.  spider.cpp (ECMAScript) takes
\* the first alternative that matches; spider.c (POSIX) takes the longest
\* match, and the earlier alternative among equally long ones.
AttrMatchAt(imp, tag, p, attr) ==
    IF ~starts_with_ci(From(tag, p), attr) THEN NoAttr
    ELSE The({ IF eqp > Len(tag) \/ tag[eqp] # "=" THEN NoAttr
               ELSE The({ IF q > Len(tag) THEN NoAttr
                          ELSE The({ IF imp = "cpp"
                                     THEN (IF quoted.ok THEN quoted ELSE bare)
                                     ELSE (IF quoted.ok /\ quoted.end >= bare.end
                                           THEN quoted ELSE bare)
                                     : quoted \in {QuotedAt(tag, q)},
                                       bare \in {BareAt(tag, q)} })
                          : q \in {FirstIn(tag, eqp + 1, NotSpace)} })
               : eqp \in {FirstIn(tag, p + Len(attr), NotSpace)} })

\* The leftmost match at or after from, NoAttr when there is none.
AttrSearch(imp, tag, from, attr) ==
    The({ IF starts = {} THEN NoAttr
          ELSE AttrMatchAt(imp, tag, Least(starts), attr)
          : starts \in {{p \in from..Len(tag) :
                            AttrMatchAt(imp, tag, p, attr).ok}} })

KeepEmptyValue(v) == <<trim(v)>>

KeepValue(v) == The({ IF t = <<>> THEN <<>> ELSE <<t>> : t \in {trim(v)} })

\* Every match in the text, each search starting where the match before it
\* ended (the sregex_iterator loop of spider.cpp).
RECURSIVE extract_attr_urls(_, _, _)
extract_attr_urls(text, start, attr) ==
    The({ The({ IF ~m.ok THEN <<>>
                ELSE KeepValue(m.value) \o extract_attr_urls(tag, m.end + 1, attr)
                : m \in {AttrSearch("cpp", tag, from, attr)} })
          : tag \in {text}, from \in {start} })

\* The first match only (the single regexec of spider.c).
FirstAttr(text, attr) ==
    The({ IF m.ok THEN KeepValue(m.value) ELSE <<>>
          : m \in {AttrSearch("c", text, 1, attr)} })

RECURSIVE TagValues(_, _, _)
TagValues(imp, found, attr) ==
    The({ IF tags = <<>> THEN <<>>
          ELSE (IF imp = "cpp" THEN extract_attr_urls(Head(tags), 1, attr)
                ELSE FirstAttr(Head(tags), attr))
               \o TagValues(imp, Tail(tags), attr)
          : tags \in {found} })

extract_tag_attrs(imp, html, tagname, attr) ==
    TagValues(imp, FindTags(html, 1, tagname), attr)

extract_img_srcs(imp, html) ==
    extract_tag_attrs(imp, html, <<"i","m","g">>, <<"s","r","c">>)
extract_a_hrefs(imp, html) ==
    extract_tag_attrs(imp, html, <<"a">>, <<"h","r","e","f">>)

(***************************************************************************)
(* Command line                                                            *)
(***************************************************************************)
is_number(s) == s # <<>> /\ \A i \in 1..Len(s) : isdigit(s[i])

DigitValue(c) == CHOOSE d \in 0..9 : <<"0","1","2","3","4","5","6","7","8","9">>[d + 1] = c

\* std::stoi / atoi on a string of digits.  The -l values of this model
\* stay far below INT_MAX, where both conversions are exact.
RECURSIVE stoi(_)
stoi(str) ==
    The({ IF s = <<>> THEN 0
          ELSE 10 * stoi(UpTo(s, Len(s) - 1)) + DigitValue(s[Len(s)])
          : s \in {str} })

DefaultDepth == 5
DefaultOutDir == <<".","/","d","a","t","a">>

InitOptions == [recursive |-> FALSE, max_depth |-> 0, out_dir |-> DefaultOutDir,
                url |-> <<>>, rc |-> -1]

\* The argument loop of main from argv[i] on; rc is the exit code of an
\* early return, -1 when the loop runs to its end.
RECURSIVE ParseArgs(_, _, _)
ParseArgs(args, from, opts) ==
    The({ IF i > Len(args) THEN o
          ELSE IF args[i] = <<"-","r">>
          THEN ParseArgs(args, i + 1, [o EXCEPT !.recursive = TRUE])
          ELSE IF args[i] = <<"-","l">>
          THEN IF i + 1 > Len(args) THEN [o EXCEPT !.rc = 1]
               ELSE IF ~is_number(args[i + 1]) THEN [o EXCEPT !.rc = 1]
               ELSE ParseArgs(args, i + 2,
                              [o EXCEPT !.max_depth = stoi(args[i + 1])])
          ELSE IF args[i] = <<"-","p">>
          THEN IF i + 1 > Len(args) THEN [o EXCEPT !.rc = 1]
               ELSE ParseArgs(args, i + 2, [o EXCEPT !.out_dir = args[i + 1]])
          ELSE IF args[i] = <<"-","h">> \/ args[i] = <<"-","-","h","e","l","p">>
          THEN [o EXCEPT !.rc = 0]
          ELSE ParseArgs(args, i + 1, [o EXCEPT !.url = args[i]])
          : i \in {from}, o \in {opts} })

\* "If -r is set and -l not provided => default depth 5": the test is on
\* the value of max_depth, not on the presence of -l.
EffectiveMaxDepth(o) ==
    IF o.recursive /\ o.max_depth = 0 THEN DefaultDepth ELSE o.max_depth

\* int depth = opt.recursive ? opt.max_depth : 0;
InitialDepth(o) == IF o.recursive THEN EffectiveMaxDepth(o) ELSE 0

(***************************************************************************)
(* The environment: command lines and sites                                *)
(***************************************************************************)
\* Largest -l value on the command lines of the model, and the number of
\* existing pages or images whose transfer may fail in one run.
MaxDepthArg == 2
MaxFail == 2

Hs == <<"h","t","t","p",":","/","/">>
Seed == Hs \o <<"a","/">>

Digit(n) == << <<"0","1","2","3","4","5","6","7","8","9">>[n + 1] >>

Help == <<"-","h">>
LongHelp == <<"-","-","h","e","l","p">>
BadSeed == <<"f","t","p",":","/","/","a","/">>
OutDirArg == <<"o","u","t","/">>

\* spider [-r] [-l N] [-p PATH] URL: command lines that crawl, and command
\* lines main turns down.
ArgvSet ==
    { <<Seed>>, << <<"-","r">>, Seed >>, << <<"-","l">>, Digit(2), Seed >>,
      << <<"-","p">>, OutDirArg, Seed >> }
    \cup { << <<"-","r">>, <<"-","l">>, Digit(n), Seed >> : n \in 0..MaxDepthArg }
    \cup { <<>>, << <<"-","r">> >>, <<BadSeed>>, << Seed, <<"-","l">> >>,
           << <<"-","l">>, <<"-","1">>, Seed >>, << <<"-","l">>, <<>>, Seed >>,
           << <<"-","l">>, Help, Seed >>, << Seed, <<"-","p">> >>,
           <<Help>>, << Seed, LongHelp >>, << <<"-","r">>, Help, Seed >>,
           << <<"-","l">>, <<"x">>, Help >>, << Help, <<"-","l">>, <<"x">> >>,
           << BadSeed, Seed >>, << Seed, <<>> >> }

Img(src) == <<"<","i","m","g"," ","s","r","c","=">> \o src \o <<">">>
ImgQ(src) == <<"<","I","M","G"," ","s","r","c","=","\"">> \o src \o <<"\"",">">>
Anchor(href) == <<"<","a"," ","h","r","e","f","=">> \o href \o <<">">>
AnchorQ(href) == <<"<","a"," ","h","r","e","f"," ","="," ","'">> \o href \o <<"'",">">>

SiteIds == {"cyc", "inf", "dia", "var"}
NoPage == [found |-> FALSE, body |-> <<>>]
Page(body) == [found |-> TRUE, body |-> body]

\* "cyc": a small site on host a with a self-link, a cycle, a page linked
\* twice, an image that two pages share, links to other hosts, references
\* that are fragments, and a page with an empty body.
CycPage(host, path) ==
    IF host = <<"a">> /\ path = <<"/">>
    THEN Page(Img(<<"i",".","p","n","g">>) \o Img(<<"i",".","p","n","g">>)
              \o ImgQ(<<"/","j",".","g","i","f">>)
              \o Anchor(<<"/","p">>) \o Anchor(<<"/","/","b","/">>)
              \o AnchorQ(<<"h","t","t","p",":","/","/","A","/","q">>)
              \o Anchor(<<"#","t">>) \o Anchor(<<"p">>))
    ELSE IF host = <<"a">> /\ path = <<"/","p">>
    THEN Page(ImgQ(<<"/","j",".","g","i","f">>) \o Img(<<"k",".","t","x","t">>)
              \o Anchor(<<"/">>) \o Anchor(<<"/","p">>) \o AnchorQ(<<"q">>))
    ELSE IF host = <<"a">> /\ path = <<"/","q">>
    THEN Page(Anchor(<<"/","r">>)
              \o Anchor(<<"h","t","t","p",":","/","/","a",":","8","/">>)
              \o Img(<<"#","i",".","p","n","g">>))
    ELSE IF host = <<"a">> /\ path = <<"/","r">>
    THEN Page(<<>>)
    ELSE IF host = <<"b">> /\ path = <<"/">>
    THEN Page(Img(<<"b",".","p","n","g">>) \o Anchor(<<"/","x">>))
    ELSE NoPage

\* "inf": every directory URL of host a is a page with an image of its own,
\* a link one directory deeper and a link back to the root, so the site has
\* unboundedly many distinct URLs.
InfPage(host, path) ==
    IF host = <<"a">> /\ ends_with(path, <<"/">>)
    THEN Page(Img(<<"i",".","p","n","g">>)
              \o Anchor(path \o <<"n","/">>) \o Anchor(<<"/">>))
    ELSE NoPage

\* "dia": the seed links to /a and to /b, /a links to /b, and /b to /c: the
\* page /b is one link from the seed and two links from it through /a.
DiaPage(host, path) ==
    IF host # <<"a">> THEN NoPage
    ELSE IF path = <<"/">> THEN Page(Anchor(<<"/","a">>) \o Anchor(<<"/","b">>))
    ELSE IF path = <<"/","a">> THEN Page(Anchor(<<"/","b">>))
    ELSE IF path = <<"/","b">> THEN Page(Anchor(<<"/","c">>))
    ELSE IF path = <<"/","c">> THEN Page(<<>>)
    ELSE NoPage

\* "var": the seed holds an image and a link whose URLs have no host, an
\* image on another host, and four links to the one page /p: as it is, with
\* a fragment, with the scheme in upper case and with a "." segment.  The
\* transport sends neither the fragment nor the "." segment to the server.
VarPage(host, path) ==
    IF host # <<"a">> THEN NoPage
    ELSE IF path = <<"/">>
    THEN Page(Img(<<"/","/","/","x",".","p","n","g">>)
              \o Img(<<"/","/","b","/","y",".","p","n","g">>)
              \o Anchor(<<"/","/","/","x">>)
              \o Anchor(<<"/","p">>)
              \o Anchor(<<"/","p","#","f">>)
              \o Anchor(<<"H","T","T","P",":","/","/","a","/","p">>)
              \o Anchor(<<"/",".","/","p">>)
              \o <<"<","i","m","g"," ","d","a","t","a","-","s","r","c","=",
                   "u",".","p","n","g"," ","s","r","c","=","v",".","p","n","g",">">>
              \o AnchorQ(<<"/","a"," ","b">>))
    ELSE IF path \in {<<"/","p">>, <<"/","p","#","f">>, <<"/",".","/","p">>,
                      <<"/","a"," ","b">>}
    THEN Page(<<"t">>)
    ELSE NoPage

\* What the server of the site answers for url: hosts are case-insensitive.
SiteBody(s, url) ==
    The({ IF ~u.ok THEN NoPage
          ELSE IF s = "cyc" THEN CycPage(to_lower(u.host), u.path)
          ELSE IF s = "dia" THEN DiaPage(to_lower(u.host), u.path)
          ELSE IF s = "var" THEN VarPage(to_lower(u.host), u.path)
          ELSE InfPage(to_lower(u.host), u.path)
          : u \in {parse_url("cpp", url)} })

(***************************************************************************)
(* Spider core: state                                                      *)
(***************************************************************************)
VARIABLES
    call,               \* one call of a pure function: arguments and result
    impl,               \* which implementation runs: "cpp" or "c"
    overlap,            \* what the build's snprintf does when its output
                        \* overlaps an argument (spider.c join_url)
    site,               \* the site the transport talks to
    argv,               \* the command line, argv[1..]
    dir_ok,             \* whether the output directory can be created
    pc,                 \* main: "start", "crawl", "done", "exit", "crashed";
                        \* "call" when a pure function is called on its own
    exit_code,          \* the return value of main, -1 while it runs
    opt,                \* Options
    stack,              \* the call chain of crawl, innermost frame last
    visited_pages,
    downloaded_images,
    summary,            \* the two counts printed after the crawl
    trace,              \* history: crawl calls, page fetches, downloads
    pages,              \* history: what each fetched page held
    fails               \* history: transfers of existing resources failed

vars == <<call, impl, overlap, site, argv, dir_ok, pc, exit_code, opt, stack, visited_pages,
          downloaded_images, summary, trace, pages, fails>>

NoSummary == [pages |-> -1, images |-> -1]

\* One activation of crawl(url, depth_left) with its locals.
NewFrame(url, depth_left) ==
    [url |-> url, depth_left |-> depth_left, phase |-> "entry",
     parts |-> NoParts, html |-> <<>>, srcs |-> <<>>, hrefs |-> <<>>,
     i |-> 1, imgUrl |-> <<>>, out_path |-> <<>>]

Event(ev, url, page, depth, ok, path) ==
    [ev |-> ev, url |-> url, page |-> page, depth |-> depth, ok |-> ok,
     path |-> path]

Top == stack[Len(stack)]
SetTop(f) == [stack EXCEPT ![Len(stack)] = f]
Running == pc = "crawl" /\ stack # <<>>

\* The caller's chain after the innermost activation returns: the caller
\* goes on with the next href of its loop.
ReturnTo(stk) ==
    IF Len(stk) <= 1 THEN <<>>
    ELSE [SubSeq(stk, 1, Len(stk) - 1) EXCEPT ![Len(stk) - 1].i = @ + 1]

NoCall == [fn |-> "none", done |-> FALSE]

Init ==
    /\ call = NoCall
    /\ impl \in Impls
    /\ overlap \in OverlapsOf(impl)
    /\ site \in SiteIds
    /\ argv \in ArgvSet
    /\ dir_ok \in BOOLEAN
    /\ pc = "start"
    /\ exit_code = -1
    /\ opt = InitOptions
    /\ stack = <<>>
    /\ visited_pages = {}
    /\ downloaded_images = {}
    /\ summary = NoSummary
    /\ trace = <<>>
    /\ pages = <<>>
    /\ fails = 0

(***************************************************************************)
(* main                                                                    *)
(***************************************************************************)
CrawlWithoutOutDir(o, dirOk) ==
    IF o.rc # -1 THEN o.rc
    ELSE IF o.url = <<>> THEN 1
    ELSE IF ~parse_url(impl, o.url).ok THEN 1
    ELSE -1

\* The exit code main returns before any crawling, -1 when it goes on to
\* crawl.  dirOk: whether the output directory can be created.
EarlyExit(o, dirOk) ==
    IF o.rc # -1 THEN o.rc
    ELSE IF o.url = <<>> THEN 1
    ELSE IF ~dirOk THEN 1
    ELSE IF ~parse_url(impl, o.url).ok THEN 1
    ELSE -1

Main ==
    /\ pc = "start"
    /\ \E dirOk \in {dir_ok}, o \in {ParseArgs(argv, 1, InitOptions)} :
        \E rc \in {EarlyExit(o, dirOk)} :
            IF rc # -1
            THEN /\ pc' = "exit"
                 /\ exit_code' = rc
                 /\ UNCHANGED <<opt, stack, trace>>
            ELSE /\ pc' = "crawl"
                 /\ opt' = [o EXCEPT !.max_depth = EffectiveMaxDepth(o)]
                 /\ stack' = <<NewFrame(o.url, InitialDepth(o))>>
                 /\ trace' = Append(trace, Event("crawl", o.url, <<>>,
                                                 InitialDepth(o), TRUE, <<>>))
                 /\ UNCHANGED exit_code
    /\ UNCHANGED <<call, impl, overlap, site, argv, dir_ok, visited_pages, downloaded_images,
                   summary, pages, fails>>

\* The crawl has returned: print the summary and return 0.
Finish ==
    /\ pc = "crawl"
    /\ stack = <<>>
    /\ pc' = "done"
    /\ exit_code' = 0
    /\ summary' = [pages |-> Cardinality(visited_pages),
                   images |-> Cardinality(downloaded_images)]
    /\ UNCHANGED <<call, impl, overlap, site, argv, dir_ok, opt, stack, visited_pages,
                   downloaded_images, trace, pages, fails>>

(***************************************************************************)
(* Spider core: crawl(url, depth_left)                                     *)
(***************************************************************************)
NeverVisited(url, visited) == FALSE

\* visited_pages.find(url) != visited_pages.end()
AlreadyVisited(url, visited) == url \in visited

\* The three early returns at the head of crawl.
RejectedAtEntry(url) ==
    \/ url = <<>>
    \/ ~parse_url(impl, url).ok
    \/ AlreadyVisited(url, visited_pages)

CrawlReturnEarly ==
    /\ Running
    /\ Top.phase = "entry"
    /\ RejectedAtEntry(Top.url)
    /\ stack' = ReturnTo(stack)
    /\ UNCHANGED <<call, impl, overlap, site, argv, dir_ok, pc, exit_code, opt, visited_pages,
                   downloaded_images, summary, trace, pages, fails>>

\* visited_pages.insert(url), before the page is requested.
ClaimNothing(visited, url) == visited

\* visited_pages.insert(url), before the page is fetched.
ClaimPage(visited, url) == visited \cup {url}

CrawlClaim ==
    /\ Running
    /\ Top.phase = "entry"
    /\ ~RejectedAtEntry(Top.url)
    /\ visited_pages' = ClaimPage(visited_pages, Top.url)
    /\ stack' = SetTop([Top EXCEPT !.phase = "fetch",
                                   !.parts = parse_url(impl, Top.url)])
    /\ UNCHANGED <<call, impl, overlap, site, argv, dir_ok, pc, exit_code, opt, downloaded_images,
                   summary, trace, pages, fails>>

FetchFailUnwind(stk) == <<>>

\* The chain after http_get_text failed: "failed to fetch", return.
FetchFailReturn(stk) == ReturnTo(stk)

\* http_get_text fails: the page does not exist, or the transfer of an
\* existing page fails (bad status, network error, timeout).
FetchFail ==
    /\ Running
    /\ Top.phase = "fetch"
    /\ \E found \in {SiteBody(site, Top.url).found} :
           /\ found => fails < MaxFail
           /\ fails' = IF found THEN fails + 1 ELSE fails
    /\ trace' = Append(trace, Event("fetch", Top.url, <<>>, Top.depth_left,
                                    FALSE, <<>>))
    /\ stack' = FetchFailReturn(stack)
    /\ UNCHANGED <<call, impl, overlap, site, argv, dir_ok, pc, exit_code, opt, visited_pages,
                   downloaded_images, summary, pages>>

PageRecord(f, srcs) ==
    [depth_left |-> f.depth_left, parts |-> f.parts, srcs |-> srcs,
     hrefs |-> <<>>, gate |-> "pending"]

\* http_get_text succeeds and the img/src values are extracted.
FetchOk ==
    /\ Running
    /\ Top.phase = "fetch"
    /\ \E page \in {SiteBody(site, Top.url)} :
           /\ page.found
           /\ \E srcs \in {extract_img_srcs(impl, page.body)} :
                  /\ stack' = SetTop([Top EXCEPT !.phase = "images",
                                                 !.html = page.body,
                                                 !.srcs = srcs, !.i = 1])
                  /\ pages' = pages @@ (Top.url :> PageRecord(Top, srcs))
    /\ trace' = Append(trace, Event("fetch", Top.url, <<>>, Top.depth_left,
                                    TRUE, <<>>))
    /\ UNCHANGED <<call, impl, overlap, site, argv, dir_ok, pc, exit_code, opt, visited_pages,
                   downloaded_images, summary, fails>>

\* spider.c only: a 2xx answer with an empty body never calls write_mem_cb,
\* so http_get_text hands back html = NULL and returns true; regexec on the
\* null pointer is undefined behaviour and ends the process.  (When the
\* transport calls write_mem_cb with zero bytes html is "" and FetchOk
\* applies.)
FetchNullCrash ==
    /\ Running
    /\ impl = "c"
    /\ Top.phase = "fetch"
    /\ \E page \in {SiteBody(site, Top.url)} :
           page.found /\ page.body = <<>>
    /\ pc' = "crashed"
    /\ stack' = SetTop([Top EXCEPT !.phase = "images"])
    /\ trace' = Append(trace, Event("fetch", Top.url, <<>>, Top.depth_left,
                                    TRUE, <<>>))
    /\ UNCHANGED <<call, impl, overlap, site, argv, dir_ok, exit_code, opt, visited_pages,
                   downloaded_images, summary, pages, fails>>

NeverDownloaded(imgUrl, downloaded) == FALSE

\* downloaded_images.find(imgUrl) != downloaded_images.end()
AlreadyDownloaded(imgUrl, downloaded) == imgUrl \in downloaded

SameHostImagesOnly(parts, src, downloaded) ==
    \E imgUrl \in {join_url(impl, overlap, parts, src)} :
        \/ imgUrl = <<>>
        \/ ~is_image_url(imgUrl)
        \/ AlreadyDownloaded(imgUrl, downloaded)
        \/ to_lower(parse_url(impl, imgUrl).host) # to_lower(parts.host)

\* The three "continue" tests of the image loop.
ImageSkipped(parts, src, downloaded) ==
    \E imgUrl \in {join_url(impl, overlap, parts, src)} :
        \/ imgUrl = <<>>
        \/ ~is_image_url(imgUrl)
        \/ AlreadyDownloaded(imgUrl, downloaded)

\* opt.out_dir / filename in spider.cpp, "%s/%s" in spider.c.
OutPath(out_dir, fname) ==
    IF impl = "cpp" /\ out_dir # <<>> /\ out_dir[Len(out_dir)] = "/"
    THEN out_dir \o fname
    ELSE out_dir \o <<"/">> \o fname

ImagesLeft(f) == f.phase = "images" /\ f.i <= Len(f.srcs)

LinksInsideImageLoop(f) == f.phase = "images"

\* The image loop has run to its end: the statements after it come next.
ImagesDone(f) == f.phase = "images" /\ f.i > Len(f.srcs)

ImageSkip ==
    /\ Running
    /\ ImagesLeft(Top)
    /\ ImageSkipped(Top.parts, Top.srcs[Top.i], downloaded_images)
    /\ stack' = SetTop([Top EXCEPT !.i = @ + 1])
    /\ UNCHANGED <<call, impl, overlap, site, argv, dir_ok, pc, exit_code, opt, visited_pages,
                   downloaded_images, summary, trace, pages, fails>>

\* downloaded_images.insert(imgUrl), before the download is attempted.
ImageClaim ==
    /\ Running
    /\ ImagesLeft(Top)
    /\ ~ImageSkipped(Top.parts, Top.srcs[Top.i], downloaded_images)
    /\ \E imgUrl \in {join_url(impl, overlap, Top.parts, Top.srcs[Top.i])} :
           /\ downloaded_images' = downloaded_images \cup {imgUrl}
           /\ stack' = SetTop([Top EXCEPT
                  !.phase = "download", !.imgUrl = imgUrl,
                  !.out_path = OutPath(opt.out_dir, filename_from_url(imgUrl))])
    /\ UNCHANGED <<call, impl, overlap, site, argv, dir_ok, pc, exit_code, opt, visited_pages,
                   summary, trace, pages, fails>>

BreakOnFailedDownload(f, ok) ==
    IF ok THEN [f EXCEPT !.phase = "images", !.i = @ + 1]
    ELSE [f EXCEPT !.phase = "images", !.i = Len(f.srcs) + 1]

\* The activation after http_download_file returned ok: the result is
\* logged and the loop goes on with the next src.
AfterDownload(f, ok) == [f EXCEPT !.phase = "images", !.i = @ + 1]

DownloadOk ==
    /\ Running
    /\ Top.phase = "download"
    /\ trace' = Append(trace, Event("download", Top.imgUrl, Top.url,
                                    Top.depth_left, TRUE, Top.out_path))
    /\ stack' = SetTop(AfterDownload(Top, TRUE))
    /\ UNCHANGED <<call, impl, overlap, site, argv, dir_ok, pc, exit_code, opt, visited_pages,
                   downloaded_images, summary, pages, fails>>

DownloadFail ==
    /\ Running
    /\ Top.phase = "download"
    /\ fails < MaxFail
    /\ fails' = fails + 1
    /\ trace' = Append(trace, Event("download", Top.imgUrl, Top.url,
                                    Top.depth_left, FALSE, Top.out_path))
    /\ stack' = SetTop(AfterDownload(Top, FALSE))
    /\ UNCHANGED <<call, impl, overlap, site, argv, dir_ok, pc, exit_code, opt, visited_pages,
                   downloaded_images, summary, pages>>

GateAlwaysOpen(o, depth_left) == TRUE

\* if (!opt.recursive) return; if (depth_left <= 0) return;
GateOpen(o, depth_left) == o.recursive /\ depth_left > 0

GateClosed ==
    /\ Running
    /\ ImagesDone(Top)
    /\ ~GateOpen(opt, Top.depth_left)
    /\ pages' = [pages EXCEPT ![Top.url].gate = "closed"]
    /\ stack' = ReturnTo(stack)
    /\ UNCHANGED <<call, impl, overlap, site, argv, dir_ok, pc, exit_code, opt, visited_pages,
                   downloaded_images, summary, trace, fails>>

\* The a/href values are extracted and the link loop starts.
EnterLinks ==
    /\ Running
    /\ ImagesDone(Top)
    /\ GateOpen(opt, Top.depth_left)
    /\ \E hrefs \in {extract_a_hrefs(impl, Top.html)} :
           /\ stack' = SetTop([Top EXCEPT !.phase = "links", !.hrefs = hrefs,
                                          !.i = 1])
           /\ pages' = [pages EXCEPT ![Top.url].gate = "open",
                                     ![Top.url].hrefs = hrefs]
    /\ UNCHANGED <<call, impl, overlap, site, argv, dir_ok, pc, exit_code, opt, visited_pages,
                   downloaded_images, summary, trace, fails>>

AnyHost(h1, h2) == TRUE

\* to_lower(nextParts->host) == to_lower(partsOpt->host); strcasecmp in C.
same_host(h1, h2) == to_lower(h1) = to_lower(h2)

\* The tests a href passes before crawl is called on it.
Followed(imp, ovl, parts, href) ==
    \E nextUrl \in {join_url(imp, ovl, parts, href)} :
        /\ nextUrl # <<>>
        /\ \E nextParts \in {parse_url(imp, nextUrl)} :
               /\ nextParts.ok
               /\ same_host(nextParts.host, parts.host)

SameDepth(depth_left) == depth_left

\* crawl(nextUrl, depth_left - 1)
NextDepth(depth_left) == depth_left - 1

LinksLeft(f) == f.phase = "links" /\ f.i <= Len(f.hrefs)

LastLinkFirst(f) == f.hrefs[Len(f.hrefs) + 1 - f.i]

\* for (auto &href : hrefs): the href the link loop stands at.
NextLink(f) == f.hrefs[f.i]

BreakAtSkippedLink(f) == [f EXCEPT !.i = Len(f.hrefs) + 1]

\* continue: the link loop goes on with the next href.
AfterSkippedLink(f) == [f EXCEPT !.i = @ + 1]

LinkSkip ==
    /\ Running
    /\ LinksLeft(Top)
    /\ ~Followed(impl, overlap, Top.parts, NextLink(Top))
    /\ stack' = SetTop(AfterSkippedLink(Top))
    /\ UNCHANGED <<call, impl, overlap, site, argv, dir_ok, pc, exit_code, opt, visited_pages,
                   downloaded_images, summary, trace, pages, fails>>

LinkFollow ==
    /\ Running
    /\ LinksLeft(Top)
    /\ Followed(impl, overlap, Top.parts, NextLink(Top))
    /\ \E nextUrl \in {join_url(impl, overlap, Top.parts, NextLink(Top))},
          d \in {NextDepth(Top.depth_left)} :
           /\ stack' = Append(stack, NewFrame(nextUrl, d))
           /\ trace' = Append(trace, Event("crawl", nextUrl, Top.url, d,
                                           TRUE, <<>>))
    /\ UNCHANGED <<call, impl, overlap, site, argv, dir_ok, pc, exit_code, opt, visited_pages,
                   downloaded_images, summary, pages, fails>>

LinksDone ==
    /\ Running
    /\ Top.phase = "links"
    /\ Top.i > Len(Top.hrefs)
    /\ stack' = ReturnTo(stack)
    /\ UNCHANGED <<call, impl, overlap, site, argv, dir_ok, pc, exit_code, opt, visited_pages,
                   downloaded_images, summary, trace, pages, fails>>

Next ==
    \/ Main
    \/ CrawlReturnEarly
    \/ CrawlClaim
    \/ FetchFail
    \/ FetchOk
    \/ FetchNullCrash
    \/ ImageSkip
    \/ ImageClaim
    \/ DownloadOk
    \/ DownloadFail
    \/ GateClosed
    \/ EnterLinks
    \/ LinkSkip
    \/ LinkFollow
    \/ LinksDone
    \/ Finish

Spec == Init /\ [][Next]_vars

\* The process is one thread that keeps running until main returns.
FairSpec == Spec /\ WF_vars(Next)

(***************************************************************************)
(* What a run did, read off the history                                    *)
(***************************************************************************)
Range(s) == { s[k] : k \in 1..Len(s) }
CrawlIdx == { k \in 1..Len(trace) : trace[k].ev = "crawl" }
FetchIdx == { k \in 1..Len(trace) : trace[k].ev = "fetch" }
DownloadIdx == { k \in 1..Len(trace) : trace[k].ev = "download" }
Crawling == pc \in {"crawl", "done", "crashed"}

\* The depth main hands to the first call of crawl.
DepthBudget == trace[1].depth

\* The URLs crawl was called on from page p, in call order.
CrawlsFrom(p) ==
    The({ [k \in 1..Len(calls) |-> calls[k].url] :
          calls \in {SelectSeq(trace,
                       LAMBDA e : e.ev = "crawl" /\ e.page = p)} })

\* The URLs the hrefs of the fetched page p resolve to and the link loop
\* follows, in document order.
FollowList(p) ==
    The({ [k \in 1..Len(kept) |->
              join_url(impl, overlap, pages[p].parts, kept[k])] :
          kept \in {SelectSeq(pages[p].hrefs,
                      LAMBDA h : Followed(impl, overlap, pages[p].parts, h))} })

\* The URLs the img/src values of the fetched page p resolve to and the
\* image loop keeps.
ImageUrls(p) ==
    { u \in { join_url(impl, overlap, pages[p].parts, s) :
              s \in Range(pages[p].srcs) } :
        u # <<>> /\ is_image_url(u) }

\* The pages one followed link away from url on site s.
LinksOf(imp, ovl, s, url) ==
    The({ IF ~page.found \/ ~parts.ok THEN {}
          ELSE { join_url(imp, ovl, parts, h) :
                 h \in { x \in Range(extract_a_hrefs(imp, page.body)) :
                           Followed(imp, ovl, parts, x) } } :
          page \in {SiteBody(s, url)}, parts \in {parse_url(imp, url)} })

\* The pages at most n followed links away from the seed.
RECURSIVE Within(_, _, _, _)
Within(imp, ovl, s, n) ==
    IF n = 0 THEN {Seed}
    ELSE The({ R \cup UNION { LinksOf(imp, ovl, s, u) : u \in R } :
               R \in {Within(imp, ovl, s, n - 1)} })

MaxHops == IF MaxDepthArg > DefaultDepth THEN MaxDepthArg ELSE DefaultDepth

WithinTable ==
    [imp \in Impls |-> [ovl \in OverlapsOf(imp) |->
        [s \in SiteIds |-> [n \in 0..MaxHops |-> Within(imp, ovl, s, n)]]]]

(***************************************************************************)
(* Properties                                                              *)
(***************************************************************************)

\* C1: in one run no URL is handed to the page fetch more than once,
\* whether its fetch succeeded or failed: no two fetches in the history
\* have the same URL, and an activation about to fetch holds a URL that
\* was not fetched before.
C1_NoUrlFetchedTwice ==
    /\ \A j, k \in FetchIdx : j # k => trace[j].url # trace[k].url
    /\ \A n \in 1..Len(stack) :
           stack[n].phase = "fetch" =>
               \A k \in FetchIdx : trace[k].url # stack[n].url

\* A finished run in which the fetch of a URL failed and crawl was called
\* on the same URL again later.
C1_Witness ==
    /\ pc = "done"
    /\ \E k \in FetchIdx :
           /\ ~trace[k].ok
           /\ \E j \in CrawlIdx : j > k /\ trace[j].url = trace[k].url

\* C2: with recursion on and a depth budget N >= 1, every activation of
\* crawl has a remaining depth between 0 and N, the activation k calls deep
\* has remaining depth N - k, so a page is fetched at most N followed links
\* below the seed, and every fetched page lies within N followed links of
\* the seed on the site.
C2_FetchedWithinDepthBudget ==
    (Crawling /\ opt.recursive /\ DepthBudget >= 1) =>
        /\ \A k \in 1..Len(trace) :
               trace[k].ev \in {"crawl", "fetch"} =>
                   trace[k].depth \in 0..DepthBudget
        /\ Len(stack) <= DepthBudget + 1
        /\ \A n \in 1..Len(stack) :
               /\ stack[n].depth_left = DepthBudget - (n - 1)
               /\ n > 1 =>
                    \E k \in CrawlIdx : /\ trace[k].url = stack[n].url
                                        /\ trace[k].page = stack[n - 1].url
        /\ \A k \in FetchIdx :
               trace[k].url \in WithinTable[impl][overlap][site][DepthBudget]

\* A finished recursive run with budget N >= 1 that fetched a page with
\* remaining depth 0, did not follow that page's links, and left a page
\* N + 1 links from the seed unfetched.
C2_Witness ==
    /\ pc = "done"
    /\ opt.recursive
    /\ DepthBudget >= 1
    /\ DepthBudget < MaxHops
    /\ \E p \in DOMAIN pages :
           /\ pages[p].depth_left = 0
           /\ pages[p].gate = "closed"
    /\ \E u \in WithinTable[impl][overlap][site][DepthBudget + 1] :
           /\ u \notin WithinTable[impl][overlap][site][DepthBudget]
           /\ \A k \in FetchIdx : trace[k].url # u

\* Two host strings of the same length whose characters agree up to case.
HostsMatch(h1, h2) ==
    /\ Len(h1) = Len(h2)
    /\ \A k \in 1..Len(h1) : tolower(h1[k]) = tolower(h2[k])

\* C3: crawl is called on a link only when the host of the resolved link
\* equals the host of the page that holds it, compared without regard to
\* case and in full; a link of a fetched page that resolves to another host
\* is never the cause of a call of crawl.
C3_OnlySameHostLinksFollowed ==
    /\ \A k \in CrawlIdx :
           trace[k].page # <<>> =>
               HostsMatch(parse_url(impl, trace[k].url).host,
                          parse_url(impl, trace[k].page).host)
    /\ \A p \in DOMAIN pages : \A h \in Range(pages[p].hrefs) :
           \E u \in {join_url(impl, overlap, pages[p].parts, h)} :
               (/\ u # <<>>
                /\ parse_url(impl, u).ok
                /\ ~HostsMatch(parse_url(impl, u).host, pages[p].parts.host))
               => \A k \in CrawlIdx :
                      ~(trace[k].url = u /\ trace[k].page = p)

\* A finished run in which a page held a link to another host and a link
\* to its own host written in another case, and the second was followed.
C3_Witness ==
    /\ pc = "done"
    /\ \E p \in DOMAIN pages :
           /\ \E h \in Range(pages[p].hrefs) :
                  \E u \in {join_url(impl, overlap, pages[p].parts, h)} :
                      /\ u # <<>>
                      /\ parse_url(impl, u).ok
                      /\ ~HostsMatch(parse_url(impl, u).host,
                                     pages[p].parts.host)
           /\ \E k \in CrawlIdx :
                  /\ trace[k].page = p
                  /\ parse_url(impl, trace[k].url).host # pages[p].parts.host

\* C4: once main has called crawl, the run reaches the state in which
\* crawl has returned and the summary is printed.
C4_CrawlReachesDone == (pc = "crawl") ~> (pc = "done")

\* The -l value of the command line, and the depth the -r and -l flags
\* stand for: N for -r -l N, 5 for -r alone, 0 without -r.
HasFlag(flag) == \E k \in 1..Len(argv) : argv[k] = flag
LevelArg == stoi(argv[(CHOOSE k \in 1..Len(argv) : argv[k] = <<"-","l">>) + 1])
FlagDepth ==
    IF ~HasFlag(<<"-","r">>) THEN 0
    ELSE IF HasFlag(<<"-","l">>) THEN LevelArg
    ELSE 5

\* C5: the depth main hands to the first call of crawl is N for -r -l N
\* (N = 0 included), 5 for -r without -l, and 0 without -r.
C5_InitialDepthFromFlags == Crawling => DepthBudget = FlagDepth

\* C6: in one run the image download is invoked at most once per image
\* URL, whichever pages reference it and whether or not the first attempt
\* succeeded.
C6_NoImageDownloadedTwice ==
    /\ \A j, k \in DownloadIdx : j # k => trace[j].url # trace[k].url
    /\ \A n \in 1..Len(stack) :
           stack[n].phase = "download" =>
               \A k \in DownloadIdx : trace[k].url # stack[n].imgUrl

\* A finished run in which the download of an image failed and the fetched
\* pages reference that image more than once.
C6_Witness ==
    /\ pc = "done"
    /\ \E k \in DownloadIdx :
           /\ ~trace[k].ok
           /\ Cardinality({ r \in UNION { { <<p, i>> : i \in 1..Len(pages[p].srcs) } :
                                          p \in DOMAIN pages } :
                  join_url(impl, overlap, pages[r[1]].parts,
                           pages[r[1]].srcs[r[2]])
                      = trace[k].url }) >= 2

\* C7: for one page, every download of its image pass comes before the
\* first call of crawl of its link pass: no download of a page follows a
\* call of crawl made from that page, and an activation in its link pass
\* has all the image URLs of its page in downloaded_images.
C7_ImagesBeforeLinks ==
    /\ \A j \in CrawlIdx : \A k \in DownloadIdx :
           trace[j].page = trace[k].page => k < j
    /\ \A n \in 1..Len(stack) :
           (stack[n].phase = "links" \/ n < Len(stack)) =>
               /\ stack[n].url \in DOMAIN pages
               /\ ImageUrls(stack[n].url) \subseteq downloaded_images
               /\ stack[n].phase = "links"

\* A page downloaded an image and crawl was then called from that page.
C7_Witness ==
    \E k \in DownloadIdx : \E j \in CrawlIdx :
        j > k /\ trace[j].page = trace[k].page

\* C8: the image count of the summary is the number of downloads that
\* succeeded.
C8_SummaryCountsSuccessfulDownloads ==
    pc = "done" =>
        summary.images = Cardinality({ k \in DownloadIdx : trace[k].ok })

\* C9: a page whose fetch failed yields no image download and no call of
\* crawl, and the failure ends only that call: in a finished run every page
\* whose link pass ran called crawl on each of its followed links, in
\* document order, whatever happened below them.
C9_FailedFetchEndsOnlyItsBranch ==
    /\ \A k \in FetchIdx :
           ~trace[k].ok =>
               /\ trace[k].url \notin DOMAIN pages
               /\ \A j \in CrawlIdx \cup DownloadIdx :
                      trace[j].page # trace[k].url
    /\ pc = "done" =>
           \A p \in DOMAIN pages :
               pages[p].gate = "open" => CrawlsFrom(p) = FollowList(p)

\* A finished run in which the fetch of a linked page failed and the page
\* holding the link then called crawl on a later link, whose fetch
\* succeeded.
C9_Witness ==
    /\ pc = "done"
    /\ \E k \in FetchIdx : \E c, j \in CrawlIdx : \E m \in FetchIdx :
           /\ ~trace[k].ok
           /\ c < k /\ trace[c].url = trace[k].url /\ trace[c].page # <<>>
           /\ j > k /\ trace[j].page = trace[c].page
           /\ m > j /\ trace[m].url = trace[j].url /\ trace[m].ok

\* C10: a failed download does not end the page: in a finished run every
\* image URL of every fetched page was attempted, every fetched page
\* passed the recursion gate its depth and the -r flag give, and every
\* followed link of a page with an open gate was crawled from it.
C10_FailedDownloadDoesNotAbortPage ==
    pc = "done" =>
        \A p \in DOMAIN pages :
            /\ ImageUrls(p) \subseteq { trace[k].url : k \in DownloadIdx }
            /\ pages[p].gate =
                   IF opt.recursive /\ pages[p].depth_left > 0
                   THEN "open" ELSE "closed"
            /\ pages[p].gate = "open" =>
                   Range(FollowList(p)) \subseteq
                       { trace[k].url : k \in { j \in CrawlIdx :
                                                  trace[j].page = p } }

\* A finished run in which a download failed, a later image of the same
\* page was downloaded, and crawl was then called from that page.
C10_Witness ==
    /\ pc = "done"
    /\ \E k, j \in DownloadIdx : \E c \in CrawlIdx :
           /\ ~trace[k].ok
           /\ j > k /\ trace[j].page = trace[k].page /\ trace[j].ok
           /\ c > j /\ trace[c].page = trace[k].page

(***************************************************************************)
(* The command line as main reads it, stated on argv alone                 *)
(***************************************************************************)
\* Argument k is read as an option or as the URL, not as the value of a
\* -l or -p before it.
RECURSIVE ReadAsOption(_)
ReadAsOption(k) ==
    \/ k = 1
    \/ ~(ReadAsOption(k - 1) /\ argv[k - 1] \in {<<"-","l">>, <<"-","p">>})

AllDigits(s) == s # <<>> /\ \A i \in 1..Len(s) : s[i] \in DigitChars

HelpAt(k) == ReadAsOption(k) /\ argv[k] \in {Help, LongHelp}

\* A -l whose value is missing or is not a string of digits, or a -p
\* without a value.
UsageErrorAt(k) ==
    /\ ReadAsOption(k)
    /\ \/ argv[k] = <<"-","l">> /\ (k = Len(argv) \/ ~AllDigits(argv[k + 1]))
       \/ argv[k] = <<"-","p">> /\ k = Len(argv)

HelpAsked == \E k \in 1..Len(argv) : HelpAt(k)
BadLevelArg == \E k \in 1..Len(argv) : UsageErrorAt(k) /\ argv[k] = <<"-","l">>

\* The arguments read as the URL; the last one is the seed.
SeedArgs ==
    { k \in 1..Len(argv) :
        /\ ReadAsOption(k)
        /\ argv[k] \notin {<<"-","r">>, <<"-","l">>, <<"-","p">>, Help, LongHelp} }
SeedMissing == \A k \in SeedArgs : argv[k] = <<>>
SeedArg == argv[CHOOSE k \in SeedArgs : \A j \in SeedArgs : j <= k]
SeedUnparsable == ~SeedMissing /\ ~parse_url(impl, SeedArg).ok

\* The first argument that ends the argument loop, 0 when none does.
FirstDeciding ==
    IF \E k \in 1..Len(argv) : HelpAt(k) \/ UsageErrorAt(k)
    THEN CHOOSE k \in 1..Len(argv) :
            /\ HelpAt(k) \/ UsageErrorAt(k)
            /\ \A j \in 1..(k - 1) : ~(HelpAt(j) \/ UsageErrorAt(j))
    ELSE 0

ExpectedExit ==
    IF FirstDeciding # 0 THEN (IF HelpAt(FirstDeciding) THEN 0 ELSE 1)
    ELSE IF SeedMissing \/ SeedUnparsable \/ ~dir_ok THEN 1
    ELSE 0

NothingTransferred ==
    trace = <<>> /\ visited_pages = {} /\ downloaded_images = {}

RecursiveAsked == \E k \in 1..Len(argv) : ReadAsOption(k) /\ argv[k] = <<"-","r">>
LevelGiven ==
    \E k \in 1..Len(argv) :
        ReadAsOption(k) /\ argv[k] = <<"-","l">> /\ ~UsageErrorAt(k)

\* C12: on a command line without -r at most one page is fetched, the
\* seed, whatever -l says and whatever links the seed page holds: crawl is
\* called once, from main; and when the run is finished every image URL of
\* the fetched seed page has been handed to the download.
C12_NoRecursionFetchesSeedOnly ==
    (Crawling /\ ~RecursiveAsked) =>
        /\ Cardinality(FetchIdx) <= 1
        /\ \A k \in FetchIdx : trace[k].url = SeedArg
        /\ \A k \in CrawlIdx : k = 1 /\ trace[k].page = <<>>
        /\ Len(stack) <= 1
        /\ (pc = "done" /\ SeedArg \in DOMAIN pages) =>
               /\ ImageUrls(SeedArg) = { trace[k].url : k \in DownloadIdx }
               /\ \A k \in DownloadIdx : trace[k].page = SeedArg

\* A finished run without -r but with -l 2, whose seed page holds links
\* the crawl would follow and images, one of which was downloaded.
C12_Witness ==
    /\ pc = "done"
    /\ ~RecursiveAsked
    /\ LevelGiven
    /\ opt.max_depth = 2
    /\ LinksOf(impl, overlap, site, SeedArg) # {}
    /\ \E k \in DownloadIdx : trace[k].ok /\ trace[k].page = SeedArg

(***************************************************************************)
(* The pure functions called on their own                                  *)
(***************************************************************************)
\* The strings made of at most n of the given pieces.
RECURSIVE Concats(_, _)
Concats(pieces, n) ==
    IF n = 0 THEN {<<>>}
    ELSE The({ S \cup { s \o q : s \in S, q \in pieces } :
               S \in {Concats(pieces, n - 1)} })

\* Largest number of pieces in a reference handed to join_url.
MaxRefPieces == 2

RefPieces ==
    { <<"h","t","t","p",":","/","/">>, <<"H","T","T","P","S",":","/","/">>,
      <<"x">>, <<"/">>, <<".",".">>, <<".">>, <<".",".","/">>, <<".","/">>,
      <<"c",".","p","n","g">>,
      <<"#">>, <<" ">>, <<"?">>,
      <<"j","a","v","a","s","c","r","i","p","t",":">>,
      <<"M","a","i","l","T","o",":">> }

RefInputs == Concats(RefPieces, MaxRefPieces)

\* The pages the references are seen on.
RefBases ==
    { parse_url("cpp", u) :
        u \in { Hs \o <<"h","/","a","/","b","/","i",".","h","t","m","l">>,
                <<"h","t","t","p","s",":","/","/","H",":","8","/","x","/","y",
                  "?","q","=","/","z">>,
                Hs \o <<"h">> } }

JoinCalls ==
    { [fn |-> "join_url", done |-> FALSE, base |-> b, href |-> h, out |-> <<>>] :
        b \in RefBases, h \in RefInputs }

\* Largest number of pieces in a URL handed to is_image_url and
\* filename_from_url.
MaxUrlPieces == 2

\* A URL is made of pieces up to its last segment, the end of that segment,
\* and what follows it.
UrlPieces ==
    { <<"h","t","t","p",":","/","/","x","/">>, <<"a"," ","!","_","-">>,
      <<".">>, <<"/">> }

UrlEnds ==
    { <<>>, <<".","J","P","G">>, <<".","j","p","e","g">>, <<".","p","n","g">>,
      <<".","G","i","f">>, <<".","b","m","p">>, <<".","h","t","m","l">>,
      <<"p","n","g">>, <<".","j","p">> }

UrlTails ==
    { <<>>, <<"?">>, <<"#">>, <<"/">>, <<"?","s","=",".","p","n","g">>,
      <<"#","/",".",".">> }

UrlInputs ==
    { u \o e \o s : u \in Concats(UrlPieces, MaxUrlPieces), e \in UrlEnds,
                    s \in UrlTails }

ImageCalls ==
    { [fn |-> "is_image_url", done |-> FALSE, url |-> u, out |-> FALSE] :
        u \in UrlInputs }

\* filename_from_url is called for the path out_dir / filename.
NameCalls ==
    { [fn |-> "filename_from_url", done |-> FALSE, url |-> u, out_dir |-> d,
       out |-> <<>>, path |-> <<>>] :
        u \in UrlInputs, d \in {DefaultOutDir, OutDirArg} }

\* Largest number of pieces in the markup handed to the extraction.
MaxTags == 2

\* Pieces of markup: a tag (the last two: a tag and what follows it), its
\* name, and the values its src and href attributes give, from the left.
TagPieces ==
    { [text |-> <<"<","i","m","g"," ","s","r","c","=","\"","i","\"",">">>,
       tag |-> <<"i","m","g">>, src |-> <<<<"i">>>>, href |-> <<>>],
      [text |-> <<"<","I","M","G"," ","a","l","t","=","x"," ","S","R","C"," ","="," ","'","j","'",">">>,
       tag |-> <<"i","m","g">>, src |-> <<<<"j">>>>, href |-> <<>>],
      [text |-> <<"<","a"," ","h","r","e","f","=","/","p",">">>,
       tag |-> <<"a">>, src |-> <<>>, href |-> <<<<"/","p">>>>],
      [text |-> <<"<","i","m","g"," ","s","r","c","=","\"","\"",">">>,
       tag |-> <<"i","m","g">>, src |-> <<>>, href |-> <<>>],
      [text |-> <<"<","A"," ","h","r","e","f","=","\""," ","q"," ","\"",">">>,
       tag |-> <<"a">>, src |-> <<>>, href |-> <<<<"q">>>>],
      [text |-> <<"<","i","m","a","g","e"," ","s","r","c","=","z",">","t">>,
       tag |-> <<>>, src |-> <<>>, href |-> <<>>],
      [text |-> <<"<","i","m","g"," ","d","a","t","a","-","s","r","c","=","x"," ","s","r","c","=","y",">">>,
       tag |-> <<"i","m","g">>, src |-> <<<<"x">>, <<"y">>>>, href |-> <<>>],
      [text |-> <<"<","a"," ","n","a","m","e","=","n",">","<","i","m","g"," ","a","l","t","=",">">>,
       tag |-> <<"a">>, src |-> <<>>, href |-> <<>>] }

RECURSIVE TagSeqs(_)
TagSeqs(n) ==
    IF n = 0 THEN {<<>>}
    ELSE The({ S \cup { Append(q, piece) : q \in S, piece \in TagPieces } :
               S \in {TagSeqs(n - 1)} })

RECURSIVE Markup(_)
Markup(tags) ==
    IF tags = <<>> THEN <<>> ELSE Head(tags).text \o Markup(Tail(tags))

\* The two extractions the crawl asks for.
ExtractArgs ==
    { [tagname |-> <<"i","m","g">>, attr |-> <<"s","r","c">>],
      [tagname |-> <<"a">>, attr |-> <<"h","r","e","f">>] }

\* The extraction is called twice on the same markup: n counts the calls,
\* out is the result of the last call and first that of the first.
ExtractCalls ==
    { [fn |-> "extract", done |-> FALSE, tags |-> q, html |-> Markup(q),
       tagname |-> a.tagname, attr |-> a.attr, n |-> 0, first |-> <<>>,
       out |-> <<>>] :
        q \in TagSeqs(MaxTags), a \in ExtractArgs }

\* The strings parse_url is called with: a scheme, a separator, a host, a
\* path and whitespace around them, well formed or not.
ParseLeads == { <<>>, <<" ">>, <<"\t"," ">> }
ParseSchemes ==
    { <<"h","t","t","p">>, <<"H","T","T","P">>, <<"h","T","t","P","s">>,
      <<"h","t","t","p","s">>, <<"f","t","p">>, <<"h","t","t">>,
      <<"h","t","t","p","x">>, <<>> }
ParseSeps == { <<":","/","/">>, <<":","/">>, <<":">> }
ParseHosts == { <<>>, <<"a">>, <<"A",".","b",":","8">>, <<" ">>, <<"a","?","q">> }
ParsePaths ==
    { <<>>, <<"/">>, <<"/","p","?","q","#","f">>, <<"/","a"," ","b">>,
      <<"/","/","x">>, <<"/","a","\n","b">> }
ParseTrails == { <<>>, <<" ">>, <<"\n">> }

ParseInputs ==
    { w \o s \o c \o h \o p \o e :
        w \in ParseLeads, s \in ParseSchemes, c \in ParseSeps,
        h \in ParseHosts, p \in ParsePaths, e \in ParseTrails }

ParseCalls ==
    { [fn |-> "parse_url", done |-> FALSE, url |-> u, out |-> NoParts] :
        u \in ParseInputs }

CallInputs ==
    JoinCalls \cup ImageCalls \cup NameCalls \cup ExtractCalls \cup ParseCalls

CallInit ==
    /\ call \in CallInputs
    /\ impl \in Impls
    /\ overlap \in IF call.fn = "join_url" THEN OverlapsOf(impl)
                   ELSE {"copy_first"}
    /\ site = "cyc"
    /\ argv = <<>>
    /\ dir_ok = TRUE
    /\ pc = "call"
    /\ exit_code = -1
    /\ opt = InitOptions
    /\ stack = <<>>
    /\ visited_pages = {}
    /\ downloaded_images = {}
    /\ summary = NoSummary
    /\ trace = <<>>
    /\ pages = <<>>
    /\ fails = 0

Calling(fn) == pc = "call" /\ call.fn = fn /\ ~call.done
Called(fn) == pc = "call" /\ call.fn = fn /\ call.done

CallJoinUrl ==
    /\ Calling("join_url")
    /\ call' = [call EXCEPT !.done = TRUE,
                            !.out = join_url(impl, overlap, call.base, call.href)]
    /\ UNCHANGED <<impl, overlap, site, argv, dir_ok, pc, exit_code, opt, stack,
                   visited_pages, downloaded_images, summary, trace, pages,
                   fails>>

CallParseUrl ==
    /\ Calling("parse_url")
    /\ call' = [call EXCEPT !.done = TRUE, !.out = parse_url(impl, call.url)]
    /\ UNCHANGED <<impl, overlap, site, argv, dir_ok, pc, exit_code, opt, stack,
                   visited_pages, downloaded_images, summary, trace, pages,
                   fails>>

CallIsImageUrl ==
    /\ Calling("is_image_url")
    /\ call' = [call EXCEPT !.done = TRUE, !.out = is_image_url(call.url)]
    /\ UNCHANGED <<impl, overlap, site, argv, dir_ok, pc, exit_code, opt, stack,
                   visited_pages, downloaded_images, summary, trace, pages,
                   fails>>

\* The file name for a URL and the path of the file, as the image loop
\* builds them.
CallFilenameFromUrl ==
    /\ Calling("filename_from_url")
    /\ \E fname \in {filename_from_url(call.url)} :
           call' = [call EXCEPT !.done = TRUE, !.out = fname,
                                !.path = OutPath(call.out_dir, fname)]
    /\ UNCHANGED <<impl, overlap, site, argv, dir_ok, pc, exit_code, opt, stack,
                   visited_pages, downloaded_images, summary, trace, pages,
                   fails>>

CallExtract ==
    /\ Calling("extract")
    /\ \E values \in {extract_tag_attrs(impl, call.html, call.tagname,
                                        call.attr)} :
           call' = [call EXCEPT !.n = call.n + 1,
                                !.done = (call.n + 1 = 2),
                                !.first = IF call.n = 0 THEN values ELSE @,
                                !.out = values]
    /\ UNCHANGED <<impl, overlap, site, argv, dir_ok, pc, exit_code, opt, stack,
                   visited_pages, downloaded_images, summary, trace, pages,
                   fails>>

CallNext ==
    \/ CallJoinUrl
    \/ CallIsImageUrl
    \/ CallFilenameFromUrl
    \/ CallExtract
    \/ CallParseUrl

CallSpec == CallInit /\ [][CallNext]_vars

(***************************************************************************)
(* Properties of join_url                                                  *)
(***************************************************************************)
\* str without the white space at its two ends.
Trimmed(str) ==
    IF \A i \in 1..Len(str) : isspace(str[i]) THEN <<>>
    ELSE SubSeq(str,
                CHOOSE i \in 1..Len(str) :
                    ~isspace(str[i]) /\ \A j \in 1..(i - 1) : isspace(str[j]),
                CHOOSE i \in 1..Len(str) :
                    ~isspace(str[i]) /\ \A j \in (i + 1)..Len(str) : isspace(str[j]))

HasPrefixCI(str, prefix) ==
    /\ Len(str) >= Len(prefix)
    /\ \A i \in 1..Len(prefix) : tolower(str[i]) = tolower(prefix[i])

IsAbsoluteRef(h) ==
    \/ HasPrefixCI(h, <<"h","t","t","p",":","/","/">>)
    \/ HasPrefixCI(h, <<"h","t","t","p","s",":","/","/">>)

\* An absolute reference with the letters of its scheme in lower case.
LowerScheme(h) ==
    [i \in 1..Len(h) |->
        IF \A j \in 1..i : h[j] # ":" THEN tolower(h[i]) ELSE h[i]]

\* C13: for every base, a reference that starts with http:// or https://
\* in any case resolves to that reference with its scheme lower-cased, and
\* resolving the result against any base returns it unchanged.
C13_AbsoluteRefLowerCased ==
    (Called("join_url") /\ IsAbsoluteRef(Trimmed(call.href))) =>
        /\ call.out = LowerScheme(Trimmed(call.href))
        /\ \A b \in RefBases : join_url(impl, overlap, b, call.out) = call.out

\* The references that are not to be followed.
IsSkipRef(h) ==
    \/ h = <<>>
    \/ h[1] = "#"
    \/ HasPrefixCI(h, <<"j","a","v","a","s","c","r","i","p","t",":">>)
    \/ HasPrefixCI(h, <<"m","a","i","l","t","o",":">>)

IsRelativeRef(h) ==
    /\ ~IsSkipRef(h)
    /\ ~IsAbsoluteRef(h)
    /\ h[1] # "/"

\* path cut at its first "?" or "#".
WithoutSuffix(path) ==
    IF \E i \in 1..Len(path) : path[i] \in {"?", "#"}
    THEN SubSeq(path, 1,
                (CHOOSE i \in 1..Len(path) :
                    /\ path[i] \in {"?", "#"}
                    /\ \A j \in 1..(i - 1) : path[j] \notin {"?", "#"}) - 1)
    ELSE path

\* The directory of a base path: up to and including its last "/".
BaseDirectory(path) ==
    The({ IF \E i \in 1..Len(cut) : cut[i] = "/"
          THEN SubSeq(cut, 1, CHOOSE i \in 1..Len(cut) :
                                  /\ cut[i] = "/"
                                  /\ \A j \in (i + 1)..Len(cut) : cut[j] # "/")
          ELSE <<"/">>
          : cut \in {WithoutSuffix(path)} })

\* The retained segments after seg has been read.
Retain(kept, seg) ==
    IF seg = <<>> \/ seg = <<".">> THEN kept
    ELSE IF seg = <<".", ".">>
         THEN (IF kept = <<>> THEN <<>> ELSE SubSeq(kept, 1, Len(kept) - 1))
    ELSE Append(kept, seg)

\* The segments retained of str, read from the left; seg is the segment
\* being read, kept the segments retained so far.
RECURSIVE Retained(_, _, _)
Retained(str, seg, kept) ==
    IF str = <<>> THEN Retain(kept, seg)
    ELSE IF Head(str) = "/" THEN Retained(Tail(str), <<>>, Retain(kept, seg))
    ELSE Retained(Tail(str), Append(seg, Head(str)), kept)

RECURSIVE Rejoined(_)
Rejoined(kept) ==
    IF kept = <<>> THEN <<>>
    ELSE <<"/">> \o Head(kept) \o Rejoined(Tail(kept))

\* The reference normalization of a path.
RefNormalize(path) ==
    The({ IF kept = <<>> THEN <<"/">> ELSE Rejoined(kept)
          : kept \in {Retained(path, <<>>, <<>>)} })

\* C14: a relative reference resolves to the scheme and host of the base
\* followed by the reference normalization of the base directory and the
\* reference: empty and "." segments dropped, ".." popping the last retained
\* segment if there is one, the rest rejoined under a leading "/".
C14_RelativeRefNormalized ==
    (Called("join_url") /\ IsRelativeRef(Trimmed(call.href))) =>
        call.out = call.base.scheme \o <<":", "/", "/">> \o call.base.host
                     \o RefNormalize(BaseDirectory(call.base.path)
                                       \o Trimmed(call.href))

\* A reference that starts with one "/".
IsAbsolutePathRef(h) ==
    /\ h # <<>>
    /\ h[1] = "/"
    /\ Len(h) >= 2 => h[2] # "/"

HasDotSegment(h) ==
    \E i \in 1..(Len(h) - 2) : SubSeq(h, i, i + 2) = <<"/", ".", ".">>

\* C15: a reference that starts with a single "/" resolves to the scheme
\* and host of the base followed by the reference as given: the path of the
\* base is ignored and "." and ".." segments stay.
C15_AbsolutePathAsGiven ==
    (Called("join_url") /\ IsAbsolutePathRef(Trimmed(call.href))) =>
        call.out = call.base.scheme \o <<":", "/", "/">> \o call.base.host
                     \o Trimmed(call.href)

C15_Witness ==
    /\ Called("join_url")
    /\ IsAbsolutePathRef(Trimmed(call.href))
    /\ HasDotSegment(Trimmed(call.href))
    /\ Len(call.base.path) > 1
    /\ call.out = call.base.scheme \o <<":", "/", "/">> \o call.base.host
                    \o Trimmed(call.href)

(***************************************************************************)
(* The crawl and the single calls side by side                             *)
(***************************************************************************)
WholeInit == Init \/ CallInit
WholeNext == Next \/ CallNext
WholeSpec == WholeInit /\ [][WholeNext]_vars

\* The img/src and a/href values of the fetched page p that are not to be
\* followed, and the others.
RefsOf(p) == Range(pages[p].srcs) \cup Range(pages[p].hrefs)
SkipRefsOf(p) == { r \in RefsOf(p) : IsSkipRef(Trimmed(r)) }

\* C16: a reference that, trimmed, is empty or starts with "#",
\* "javascript:" or "mailto:" in any case resolves to the empty URL against
\* every base; and crawl is called, a page fetched and an image downloaded
\* only for a non-empty URL that a reference of the page resolves to which
\* is none of these.
C16_SkippedRefsNeverFollowed ==
    /\ (Called("join_url") /\ IsSkipRef(Trimmed(call.href))) => call.out = <<>>
    /\ Crawling =>
        /\ \A p \in DOMAIN pages : \A r \in SkipRefsOf(p) :
               join_url(impl, overlap, pages[p].parts, r) = <<>>
        /\ \A k \in 1..Len(trace) :
               /\ trace[k].url # <<>>
               /\ (trace[k].page \in DOMAIN pages
                     /\ trace[k].ev \in {"crawl", "download"}) =>
                      \E r \in RefsOf(trace[k].page) \ SkipRefsOf(trace[k].page) :
                          trace[k].url = join_url(impl, overlap,
                                             pages[trace[k].page].parts, r)

\* A page with a fragment reference among its images and one among its
\* links has been worked off, and other references of it were followed.
C16_Witness ==
    /\ pc = "done"
    /\ \E p \in DOMAIN pages :
           /\ \E r \in Range(pages[p].hrefs) : IsSkipRef(Trimmed(r))
           /\ CrawlsFrom(p) # <<>>
    /\ \E p \in DOMAIN pages :
           \E r \in Range(pages[p].srcs) : IsSkipRef(Trimmed(r))

(***************************************************************************)
(* Properties of is_image_url and filename_from_url                        *)
(***************************************************************************)
LowerCased(str) == [i \in 1..Len(str) |-> tolower(str[i])]

HasSuffix(str, suffix) ==
    /\ Len(str) >= Len(suffix)
    /\ SubSeq(str, Len(str) - Len(suffix) + 1, Len(str)) = suffix

ImageSuffixes ==
    { <<".","j","p","g">>, <<".","j","p","e","g">>, <<".","p","n","g">>,
      <<".","g","i","f">>, <<".","b","m","p">> }

\* C17: is_image_url answers true exactly when the URL, in lower case and
\* cut at its first "?" or "#", ends with .jpg, .jpeg, .png, .gif or .bmp.
C17_ImageExactlyByExtension ==
    Called("is_image_url") =>
        (call.out <=> \E e \in ImageSuffixes :
                          HasSuffix(WithoutSuffix(LowerCased(call.url)), e))

\* An upper-case extension followed by a query string is an image.
C17_Witness ==
    /\ Called("is_image_url")
    /\ call.out
    /\ \E i \in 5..Len(call.url) :
           /\ call.url[i] = "?"
           /\ SubSeq(call.url, i - 4, i - 1) = <<".","J","P","G">>

IsImageUrl(url) ==
    \E e \in ImageSuffixes : HasSuffix(WithoutSuffix(LowerCased(url)), e)

HasSlash(str) == \E i \in 1..Len(str) : str[i] = "/"

\* What follows the last "/" of str, which has one.
AfterLastSlash(str) ==
    SubSeq(str,
           (CHOOSE i \in 1..Len(str) :
               str[i] = "/" /\ \A j \in (i + 1)..Len(str) : str[j] # "/") + 1,
           Len(str))

IsNameChar(c) == isalnum(c) \/ c \in {".", "_", "-"}

Underscored(name) ==
    [i \in 1..Len(name) |-> IF IsNameChar(name[i]) THEN name[i] ELSE "_"]

\* The name of the file for a URL that has a "/".
NameOf(url) ==
    IF AfterLastSlash(WithoutSuffix(url)) = <<>>
    THEN <<"i","m","a","g","e",".","b","i","n">>
    ELSE Underscored(AfterLastSlash(WithoutSuffix(url)))

\* path names a file below the directory dir: without its "." and ".."
\* segments it is dir followed by at least one more segment.
StaysInside(dir, path) ==
    \E d \in {Retained(dir, <<>>, <<>>)}, q \in {Retained(path, <<>>, <<>>)} :
        /\ Len(q) > Len(d)
        /\ SubSeq(q, 1, Len(d)) = d

\* The file name is not empty, is made of letters, digits, ".", "_" and
\* "-", and is the text after the last "/" of the URL cut at its first "?"
\* or "#" with the other characters replaced by "_", or image.bin when
\* that text is empty.
NameWellFormed ==
    /\ call.out # <<>>
    /\ \A i \in 1..Len(call.out) : IsNameChar(call.out[i])
    /\ \A i \in 1..Len(call.out) : call.out[i] \notin {"/", "\\"}
    /\ HasSlash(WithoutSuffix(call.url)) => call.out = NameOf(call.url)

RECURSIVE Flatten(_)
Flatten(seqs) ==
    IF seqs = <<>> THEN <<>> ELSE Head(seqs) \o Flatten(Tail(seqs))

NoEmptyValue(values) == \A k \in 1..Len(values) : values[k] # <<>>

\* The values the piece gives for the tag name and attribute asked for.
ValuesIn(piece, tagname, attr) ==
    IF piece.tag # LowerCased(tagname) THEN <<>>
    ELSE IF attr = <<"s","r","c">> THEN piece.src
    ELSE piece.href

\* What the call extracts from the k-th piece alone.
PieceValues(k) ==
    extract_tag_attrs(impl, call.tags[k].text, call.tagname, call.attr)

\* The values are those of the tags, tag after tag from the left: of each
\* tag its first value, or its values from the left, and none of a tag
\* without the attribute.
InDocumentOrder ==
    /\ call.out = Flatten([k \in 1..Len(call.tags) |-> PieceValues(k)])
    /\ \A k \in 1..Len(call.tags) :
           \E given \in {ValuesIn(call.tags[k], call.tagname, call.attr)},
              got \in {PieceValues(k)} :
               /\ Len(got) <= Len(given)
               /\ got = SubSeq(given, 1, Len(got))
               /\ (got = <<>>) <=> (given = <<>>)

\* What the extraction must leave alone.
CrawlStateKept ==
    /\ visited_pages' = visited_pages
    /\ downloaded_images' = downloaded_images
    /\ Len(stack') = Len(stack)
    /\ \A i \in 1..Len(stack) : stack'[i].depth_left = stack[i].depth_left

AllFetchesSucceeded == \A k \in FetchIdx : trace[k].ok

Fetched(url) == \E k \in FetchIdx : trace[k].url = url

\* C20: after a recursive run with depth budget N in which no fetch failed,
\* every page at most N followed (same-host) links from the seed has been
\* fetched, whatever the order of the links in the pages.
C20_EveryPageWithinBudgetFetched ==
    (pc = "done" /\ opt.recursive /\ AllFetchesSucceeded) =>
        \A url \in WithinTable[impl][overlap][site][DepthBudget] : Fetched(url)

(***************************************************************************)
(* Properties of what reaches the transport                                *)
(***************************************************************************)
\* C21: every URL handed to the transport, for a page or for an image,
\* parses: its scheme is http or https and its host is not empty.
C21_TransportGetsValidUrls ==
    \A k \in FetchIdx \cup DownloadIdx : parse_url(impl, trace[k].url).ok

(***************************************************************************)
(* Properties of the crawl step                                            *)
(***************************************************************************)
Unparsable(url) == url # <<>> /\ ~parse_url(impl, url).ok

\* The URL the link loop of the innermost activation is about to look at.
LinkUrl == join_url(impl, overlap, Top.parts, Top.hrefs[Top.i])

\* The link loop stands before a href whose URL does not parse, or crawl
\* has been entered with a URL that does not parse.
AtUnparsableUrl ==
    /\ Running
    /\ \/ LinksLeft(Top) /\ Unparsable(LinkUrl)
       \/ Top.phase = "entry" /\ Unparsable(Top.url)

\* C22: the step taken for a URL that does not parse fetches and downloads
\* nothing, leaves visited_pages and downloaded_images as they are, and
\* hands control to the caller's link loop at its next href.
C22_UnparsableUrlIsNoOp ==
    [][AtUnparsableUrl =>
          /\ trace' = trace
          /\ visited_pages' = visited_pages
          /\ downloaded_images' = downloaded_images
          /\ pc' = pc
          /\ IF Top.phase = "entry" THEN stack' = ReturnTo(stack)
             ELSE stack' = SetTop([Top EXCEPT !.i = Top.i + 1])]_vars

\* A page has a link whose URL does not parse, and a later link of the
\* page was followed and its page fetched.
C22_Witness ==
    /\ Crawling
    /\ \E p \in DOMAIN pages :
           \E i, j \in 1..Len(pages[p].hrefs) :
               /\ i < j
               /\ Unparsable(join_url(impl, overlap, pages[p].parts,
                                      pages[p].hrefs[i]))
               /\ \E k \in CrawlIdx :
                      /\ trace[k].page = p
                      /\ trace[k].url = join_url(impl, overlap, pages[p].parts,
                                                 pages[p].hrefs[j])
                      /\ Fetched(trace[k].url)

(***************************************************************************)
(* Properties of the traversal order                                       *)
(***************************************************************************)
IsPrefix(s, q) == Len(s) <= Len(q) /\ s = SubSeq(q, 1, Len(s))

\* The call of crawl an event belongs to: for a fetch the call just before
\* it, for a download or a call made from a page the call that page was
\* fetched in, 0 for the call main makes.
OwnerOf(m) ==
    IF trace[m].ev = "fetch" THEN m - 1
    ELSE IF trace[m].page = <<>> THEN 0
    ELSE (CHOOSE f \in FetchIdx : trace[f].url = trace[m].page) - 1

\* The event m is the call j of crawl or happens beneath it.
RECURSIVE Beneath(_, _)
Beneath(m, j) ==
    IF m = j THEN TRUE
    ELSE IF m < j THEN FALSE
    ELSE Beneath(OwnerOf(m), j)

\* The calls of crawl made from the same page as call j, after it.
LaterSiblings(j) ==
    { k \in CrawlIdx : k > j /\ trace[k].page = trace[j].page }

\* C23: the traversal is depth-first in document order.  A page is fetched
\* right after crawl is called on it; the calls of crawl made from a page
\* are its followed links from the left; and between the call for a link
\* and the call for the next link of the same page everything happens
\* beneath the first, and nothing beneath it happens later.
C23_DepthFirstInDocumentOrder ==
    Crawling =>
        /\ \A f \in FetchIdx :
               /\ f > 1
               /\ trace[f - 1].ev = "crawl"
               /\ trace[f - 1].url = trace[f].url
        /\ \A p \in DOMAIN pages : IsPrefix(CrawlsFrom(p), FollowList(p))
        /\ \A j \in CrawlIdx :
               (trace[j].page # <<>> /\ LaterSiblings(j) # {}) =>
                   \E next \in {Least(LaterSiblings(j))} :
                       \A m \in (j + 1)..Len(trace) :
                           Beneath(m, j) <=> m < next

\* Between the calls of crawl for two links of a page, a page beneath the
\* first link was fetched; the page of the second link was fetched later.
C23_Witness ==
    /\ Crawling
    /\ \E j \in CrawlIdx :
           /\ trace[j].page # <<>>
           /\ \E k \in LaterSiblings(j) :
                  /\ \E m \in FetchIdx :
                         j < m /\ m < k /\ trace[m].url # trace[j].url
                  /\ \E m \in FetchIdx : m > k /\ trace[m].url = trace[k].url

(***************************************************************************)
(* Properties of the visited set                                           *)
(***************************************************************************)
\* The URL whose page fetch is being called: claimed, result not yet known.
FetchInProgress ==
    IF Running /\ Top.phase = "fetch" THEN {Top.url} ELSE {}

FetchedUrls == { trace[k].url : k \in FetchIdx }

\* C24: the visited set is claimed before work and only grows.  The URL of
\* every page fetch, made or being made, is in the set; the set never loses
\* a member, a failed fetch included; its size is the number of page
\* fetches made so far, the one being made included; and the summary
\* reports that number, failed fetches included.
C24_VisitedClaimedBeforeWork ==
    /\ [](/\ FetchInProgress \subseteq visited_pages
          /\ visited_pages = FetchedUrls \cup FetchInProgress
          /\ Cardinality(visited_pages)
                 = Cardinality(FetchIdx) + Cardinality(FetchInProgress)
          /\ pc = "done" => summary.pages = Cardinality(FetchIdx))
    /\ [][visited_pages \subseteq visited_pages']_vars

\* A finished run in which a page fetch failed and another succeeded: the
\* failed page is in the visited set and in the reported count.
C24_Witness ==
    /\ pc = "done"
    /\ \E j, k \in FetchIdx :
           /\ ~trace[j].ok
           /\ trace[k].ok
           /\ trace[j].url \in visited_pages
    /\ summary.pages = Cardinality(FetchIdx)
    /\ summary.pages >= 2

(***************************************************************************)
(* Properties of parse_url                                                 *)
(***************************************************************************)
HttpSchemes == { <<"h","t","t","p">>, <<"h","t","t","p","s">> }

\* str is optional whitespace, then http or https in any letter case, then
\* "://", then a host of at least one character that is not "/".
HasUrlShape(str) ==
    \E n \in 0..Len(str) :
        /\ \A i \in 1..n : isspace(str[i])
        /\ \E sch \in HttpSchemes :
               \E at \in {n + Len(sch)} :
                   /\ Len(str) >= at + 4
                   /\ LowerCased(SubSeq(str, n + 1, at)) = sch
                   /\ SubSeq(str, at + 1, at + 3) = <<":","/","/">>
                   /\ str[at + 4] # "/"

\* str has a "/" after the "//" of its separator.
HasPathPart(str) ==
    \E i \in 1..Len(str) :
        /\ str[i] = "/"
        /\ \E k \in 1..(i - 3) : SubSeq(str, k, k + 2) = <<":","/","/">>

\* C25: what parse_url produces has a scheme that is "http" or "https" in
\* lower case whatever the letter case of the input, a non-empty host
\* without "/", and a path that starts with "/" and is "/" when the input
\* has no path; an input that is not scheme://host(/path)? with one of the
\* two schemes is rejected.
C25_ParsedUrlWellFormed ==
    Called("parse_url") =>
        /\ call.out = parse_url(impl, call.url)
        /\ call.out.ok =>
               /\ call.out.scheme \in HttpSchemes
               /\ call.out.host # <<>>
               /\ \A i \in 1..Len(call.out.host) : call.out.host[i] # "/"
               /\ call.out.path # <<>>
               /\ call.out.path[1] = "/"
               /\ ~HasPathPart(call.url) => call.out.path = <<"/">>
        /\ ~HasUrlShape(call.url) => ~call.out.ok

\* An upper-case scheme without a path is parsed: lower-case scheme, "/".
C25_Witness ==
    /\ Called("parse_url")
    /\ call.out.ok
    /\ call.out.path = <<"/">>
    /\ ~HasPathPart(call.url)
    /\ HasPrefixCI(call.url, <<"H","T","T","P">>)
    /\ call.url[1] = "H"
    /\ call.out.scheme = <<"h","t","t","p">>

(***************************************************************************)
(* Properties of the image pass across hosts                               *)
(***************************************************************************)
\* The image URL u is on another host than the page it was found on.
OnOtherHost(u, parts) ==
    \E img \in {parse_url(impl, u)} :
        img.ok /\ LowerCased(img.host) # LowerCased(parts.host)

\* C26: the host restriction is for links only.  Once the image loop of a
\* fetched page is over, every image URL of the page that is on another
\* host has been handed to the download, by this page or by an earlier one.
C26_ImagesOfOtherHostsDownloaded ==
    \A p \in DOMAIN pages :
        pages[p].gate # "pending" =>
            \A u \in ImageUrls(p) :
                OnOtherHost(u, pages[p].parts) =>
                    /\ u \in downloaded_images
                    /\ \E k \in DownloadIdx : trace[k].url = u

\* A scheme-relative src was downloaded from another host, with the scheme
\* of its page.
C26_Witness ==
    \E k \in DownloadIdx :
        \E p \in {trace[k].page} :
            /\ p \in DOMAIN pages
            /\ OnOtherHost(trace[k].url, pages[p].parts)
            /\ \E s \in Range(pages[p].srcs) :
                   /\ SubSeq(s, 1, 2) = <<"/","/">>
                   /\ trace[k].url = pages[p].parts.scheme \o <<":">> \o s

(***************************************************************************)
(* Properties of the output paths                                          *)
(***************************************************************************)
\* C27: two distinct image URLs that are both downloaded are never written
\* to the same output path.
C27_DistinctImagesDistinctPaths ==
    \A j, k \in DownloadIdx :
        trace[j].url # trace[k].url => trace[j].path # trace[k].path

(***************************************************************************)
(* Properties of the page identity                                         *)
(***************************************************************************)
\* url cut at its first "#".
WithoutFragment(url) ==
    IF \E i \in 1..Len(url) : url[i] = "#"
    THEN SubSeq(url, 1, (CHOOSE i \in 1..Len(url) :
                            /\ url[i] = "#"
                            /\ \A j \in 1..(i - 1) : url[j] # "#") - 1)
    ELSE url

\* str with every "." segment that stands between two "/" removed.
RECURSIVE WithoutDotSegments(_)
WithoutDotSegments(str) ==
    IF Len(str) < 3 THEN str
    ELSE IF SubSeq(str, 1, 3) = <<"/", ".", "/">>
         THEN WithoutDotSegments(Tail(Tail(str)))
    ELSE <<Head(str)>> \o WithoutDotSegments(Tail(str))

\* The page a URL denotes: the URL without its fragment, with its scheme in
\* lower case and without "." segments.
PageOf(url) == WithoutDotSegments(LowerScheme(WithoutFragment(url)))

\* C28: link references that denote the same page under different URL
\* strings cause one fetch of the page: no two page fetches of a run are
\* for the same page.
C28_SamePageFetchedOnce ==
    \A j, k \in FetchIdx :
        j # k => PageOf(trace[j].url) # PageOf(trace[k].url)

(***************************************************************************)
(* Properties of the two implementations side by side                      *)
(***************************************************************************)
\* The members of refs that Keep accepts, resolved, in the order of refs.
RECURSIVE Resolved(_, _, _, _, _)
Resolved(imp, ovl, parts, refs, links) ==
    IF refs = <<>> THEN <<>>
    ELSE The({ (IF /\ u # <<>>
                   /\ IF links THEN Followed(imp, ovl, parts, Head(refs))
                      ELSE is_image_url(u)
                THEN <<u>> ELSE <<>>)
               \o Resolved(imp, ovl, parts, Tail(refs), links)
               : u \in {join_url(imp, ovl, parts, Head(refs))} })

\* What one implementation makes of the page at url: the image URLs its
\* image loop keeps and the link URLs its link loop follows, in order.
PageWork(imp, ovl, url) ==
    The({ [images |-> Resolved(imp, ovl, parts,
                               extract_img_srcs(imp, body), FALSE),
           links |-> Resolved(imp, ovl, parts,
                              extract_a_hrefs(imp, body), TRUE)]
          : parts \in {parse_url(imp, url)},
            body \in {SiteBody(site, url).body} })

\* C29: the two implementations are equivalent.  Of every page fetched in
\* a run, both implementations make the same image URLs and the same
\* followed links in the same order, so that the fetches and downloads of
\* the run are those of the other implementation too.
C29_ImplementationsAgree ==
    \A p \in DOMAIN pages :
        \A imp \in Impls :
            \A ovl \in OverlapsOf(imp) :
                PageWork(imp, ovl, p) = PageWork(impl, overlap, p)

====
